---- MODULE Spec2Model ----
(***************************************************************************)
(* The screenshot capture tool of self-documenter (search_screenshot.js,   *)
(* compiled from search_screenshot.tsx): the top-level entry, compare      *)
(* mode, generateSearchScreenshots with its batch loop, and processQuery   *)
(* with its retry loop; the CSV reading of generateSearchScreenshots; the  *)
(* file naming of processQuery; and the RateLimiter of the Figma plugin.   *)
(*                                                                         *)
(* Node runs the script on one thread: the code between two awaits is one  *)
(* atomic step, and every action below is the continuation that runs when  *)
(* one awaited operation settles.  The browser is the environment: each    *)
(* awaited Playwright call settles with one of the outcomes it can have.   *)
(* page.close(), context.close() and browser.close() are taken to resolve. *)
(* A promise rejection that reaches the top-level async function is not    *)
(* handled anywhere, which ends the process.                               *)
(*                                                                         *)
(* Spec is the capture pipeline.  It starts at time 0 and runs with the    *)
(* default device mode; args.rows stands for the CSV file: the number of   *)
(* its rows that hold a query.  CsvSpec is the reading of the CSV file in  *)
(* full, NameSpec the naming of the screenshot file, LimiterSpec the two   *)
(* RateLimiters of the plugin, MemorySpec its MemoryManager, MatchSpec the *)
(* matching of screenshot files to queries in the plugin UI, PluginSpec    *)
(* the column selection of the plugin UI.  Each specification leaves the   *)
(* variables of the others at rest.                                        *)
(***************************************************************************)
EXTENDS Integers, Sequences, FiniteSets, TLC

VARIABLES
    args,      \* the parsed command line (search_screenshot.js:375-385)
    clock,     \* the wall clock, in seconds
    main,      \* position of the top-level async function / runCompareMode
    runs,      \* one record per invocation of generateSearchScreenshots
    queries,   \* `queries` of the latest invocation
    i,         \* the batch loop variable `i` of the latest invocation
    tasks,     \* one record per processQuery call of the latest invocation
    files      \* the screenshot files on disk

VARIABLES
    csvFile,        \* the CSV file: its lines, each one the sequence of its cells
    column,         \* the --column option
    headers,        \* `headers` of generateSearchScreenshots
    queryColIndex,  \* `queryColIndex` of generateSearchScreenshots
    reading,        \* position of generateSearchScreenshots in its two passes
    rowNo           \* the data rows the second pass has consumed

VARIABLES
    naming     \* one call of processQuery up to its file path

VARIABLES
    limiter,   \* a RateLimiter, the clock it reads and the requests it started
    spaced     \* a RateLimiter of utils/index.ts, which spaces its requests

VARIABLES
    memory,    \* a MemoryManager and the clock it reads
    matching,  \* the screenshots of one CSV: named by the tool, matched by the plugin UI
    plugin     \* the plugin UI: its two steps and its column selection

pipelineVars == <<args, clock, main, runs, queries, i, tasks, files>>
readerVars == <<csvFile, column, headers, queryColIndex, reading, rowNo>>
uiVars == <<memory, matching, plugin>>
others == <<readerVars, naming, limiter, spaced, uiVars>>
vars == <<pipelineVars, others>>

----------------------------------------------------------------------------
(* Bounds of the model *)

MaxQueries == 4          \* most queries a single run extracts
MaxCompareQueries == 1   \* most queries a compare-mode run extracts
MaxTime == 1             \* the clock runs from 0 to MaxTime seconds

----------------------------------------------------------------------------
(* Strings are sequences of one-character strings *)

Lower == {"a","b","c","d","e","f","g","h","i","j","k","l","m",
          "n","o","p","q","r","s","t","u","v","w","x","y","z"}
Upper == {"A","B","C","D","E","F","G","H","I","J","K","L","M",
          "N","O","P","Q","R","S","T","U","V","W","X","Y","Z"}
Digit == {"0","1","2","3","4","5","6","7","8","9"}

DigitChar == <<"0","1","2","3","4","5","6","7","8","9">>

Min(a, b) == IF a < b THEN a ELSE b

\* String(n) for a natural number n
RECURSIVE NatToString(_)
NatToString(n) ==
    IF n < 10 THEN <<DigitChar[n + 1]>>
    ELSE NatToString(n \div 10) \o <<DigitChar[(n % 10) + 1]>>

\* a padding that also cuts the string down to len characters
padStartCut(s, len, c) ==
    SubSeq([k \in 1..(IF Len(s) >= len THEN 0 ELSE len - Len(s)) |-> c] \o s, 1, len)

\* s.padStart(len, c): pads on the left up to len, never truncates
RECURSIVE padStart(_, _, _)
padStart(s, len, c) == IF Len(s) >= len THEN s ELSE padStart(<<c>> \o s, len, c)

\* s.slice(0, n)
slice0(s, n) == SubSeq(s, 1, Min(n, Len(s)))

\* s.trim(): the only white space of the alphabet is the blank
RECURSIVE trimStart(_)
trimStart(s) == IF s # <<>> /\ Head(s) = " " THEN trimStart(Tail(s)) ELSE s
RECURSIVE trimEnd(_)
trimEnd(s) ==
    IF s # <<>> /\ s[Len(s)] = " " THEN trimEnd(SubSeq(s, 1, Len(s) - 1)) ELSE s
trim(s) == trimEnd(trimStart(s))

\* the engine and device names as character sequences
Chars(word) ==
    CASE word = "google"     -> <<"g","o","o","g","l","e">>
      [] word = "bing"       -> <<"b","i","n","g">>
      [] word = "duckduckgo" -> <<"d","u","c","k","d","u","c","k","g","o">>
      [] word = "yahoo"      -> <<"y","a","h","o","o">>
      [] word = "mobile"     -> <<"m","o","b","i","l","e">>
      [] word = "desktop"    -> <<"d","e","s","k","t","o","p">>

----------------------------------------------------------------------------
(* Program constants *)

Engines == {"google", "bing", "duckduckgo", "yahoo"}
Modes == {"mobile", "desktop"}
DefaultMode == "mobile"
maxRetries == 2
SafeQueryLen == 40

\* a class of kept characters without the flag i
SafeCharLowerOnly(c) == c \in Lower \cup Digit \cup {" ", "_"}

\* /[^a-z0-9 _]/gi : the characters the file name keeps
SafeChar(c) == c \in Lower \cup Upper \cup Digit \cup {" ", "_"}

\* query.replace(/[^a-z0-9 _]/gi, '_').slice(0, 40).trim()
safeQuery(query) ==
    trim(slice0([k \in 1..Len(query) |-> IF SafeChar(query[k]) THEN query[k] ELSE "_"],
                SafeQueryLen))

\* `${String(index + 1).padStart(3, '0')}_${engine}_${deviceName}_${safeQuery}.jpg`
filename(query, index, engine, deviceName) ==
    padStart(NatToString(index + 1), 3, "0") \o <<"_">> \o Chars(engine) \o <<"_">>
        \o Chars(deviceName) \o <<"_">> \o safeQuery(query) \o <<".",  "j", "p", "g">>

\* path.join(output, filename)
filepath(output, name) == [dir |-> output, name |-> name]

\* mode === 'mobile' ? 'mobile' : 'desktop'
deviceName(mode) == IF mode = "mobile" THEN "mobile" ELSE "desktop"

----------------------------------------------------------------------------
(* The input: the cells of the selected CSV column *)

QueryPool == << <<"c","a","t">>, <<"a"," ","b","!">> >>

\* the queries a CSV with n data rows yields (duplicates from the third on)
ExtractedQueries(n) == [k \in 1..n |-> QueryPool[((k - 1) % Len(QueryPool)) + 1]]

----------------------------------------------------------------------------
(* generateSearchScreenshots: the state of one invocation *)

\* a selection that honours the flag for every engine
shouldUseChromeAnyEngine(useChrome, engine) == useChrome

\* const shouldUseChrome = useChrome && engine === 'google'
shouldUseChrome(useChrome, engine) == useChrome /\ engine = "google"

\* a batch size that ignores the mode
batchSizeAlways3(useChrome) == 3

\* const batchSize = useChrome ? 1 : 3
batchSize(useChrome) == IF useChrome THEN 1 ELSE 3

\* the index of the request within its batch only
taskIndexInBatch(loopI, batchIndex) == batchIndex

\* i + batchIndex, the index batch.map hands to processQuery
taskIndex(loopI, batchIndex) == loopI + batchIndex

\* a loop test that stops one batch early
MoreBatchesButLast(loopI, qs) == loopI + 1 < Len(qs)

\* the loop test i < queries.length
MoreBatches(loopI, qs) == loopI < Len(qs)

cur == Len(runs)
run == runs[cur]

\* a processQuery call that has not been made
NoTask ==
    [status |-> "none", pc |-> "none", query |-> <<>>, index |-> 0, retries |-> 0,
     success |-> FALSE, attempts |-> 0, pages |-> 0, allThrew |-> TRUE,
     reported |-> FALSE]

\* processQuery up to its first await: the locals are set, the loop test passes
\* (0 <= maxRetries, success is false) and context.newPage() is called
CallProcessQuery(query, index) ==
    [status |-> "running", pc |-> "newPage", query |-> query, index |-> index,
     retries |-> 0, success |-> FALSE, attempts |-> 0, pages |-> 0, allThrew |-> TRUE,
     reported |-> FALSE]

\* the positions (1-based) of queries.slice(loopI, loopI + size)
BatchAt(loopI, size, qs) == {k \in 1..Len(qs) : loopI < k /\ k <= loopI + size}

\* the batch the loop is awaiting
Batch == BatchAt(i, batchSize(run.useChrome), queries)

\* a wait that ends with the first promise of the batch
FirstOfBatchSettled == \E k \in Batch : tasks[k].status = "resolved"

\* yield Promise.all(batchPromises): fulfilled once every promise of the batch is
BatchSettled == \A k \in Batch : tasks[k].status = "resolved"

\* The batch loop from the test `i < queries.length` on, with the loop variable at
\* loopI: the next batch is mapped to processQuery calls, or the loop ends and
\* context.close() is called.
LoopFrom(loopI, r, qs, ts) ==
    /\ i' = loopI
    /\ IF MoreBatches(loopI, qs)
       THEN /\ tasks' = [k \in 1..Len(qs) |->
                            IF k \in BatchAt(loopI, batchSize(r.useChrome), qs)
                            THEN CallProcessQuery(qs[k], taskIndex(loopI, k - loopI - 1))
                            ELSE ts[k]]
            /\ runs' = [runs EXCEPT ![cur] = [r EXCEPT !.gen = "batch"]]
       ELSE /\ tasks' = ts
            /\ runs' = [runs EXCEPT ![cur] = [r EXCEPT !.gen = "closeContext"]]

\* The call of generateSearchScreenshots(a) up to the browser launch: the run
\* directory is named after the clock and the engine and created, the CSV is read.
\* (new Date() reads the clock: t seconds since the program started.)
Invoke(a, t) ==
    /\ clock' = t
    /\ runs' = Append(runs,
          [engine |-> a.engine, useChrome |-> a.useChrome, mode |-> a.mode,
           outputDir |-> [timestamp |-> t, engine |-> a.engine],
           gen |-> "launch", browser |-> "none", context |-> "none",
           persistent |-> FALSE, ticks |-> 0])
    /\ queries' = ExtractedQueries(a.rows)
    /\ tasks' = [k \in 1..a.rows |-> NoTask]
    /\ i' = 0

\* an error that is logged and swallowed: the invocation resolves
RejectSwallowed(r) ==
    /\ runs' = [runs EXCEPT ![cur] = [r EXCEPT !.gen = "resolved"]]
    /\ main' = main

\* An unhandled rejection: the invocation rejects, so does the top-level function
Reject(r) ==
    /\ runs' = [runs EXCEPT ![cur] = [r EXCEPT !.gen = "rejected"]]
    /\ main' = "crashed"

----------------------------------------------------------------------------
(* runCompareMode and the top-level function *)

\* { ...args, engine: 'yahoo', useChrome: false }
yahooArgs(a) == [a EXCEPT !.engine = "yahoo", !.useChrome = FALSE]

\* a comparison engine that is always the requested one
compareEngineAsRequested(a) == a.engine

\* args.engine === 'yahoo' ? 'google' : args.engine
compareEngine(a) == IF a.engine = "yahoo" THEN "google" ELSE a.engine

\* { ...args, engine: compareEngine, useChrome: compareEngine === 'google' ? args.useChrome : false }
compareArgs(a) ==
    [a EXCEPT !.engine = compareEngine(a),
              !.useChrome = IF compareEngine(a) = "google" THEN a.useChrome ELSE FALSE]

\* a first pass that is started and not awaited
FirstPassStarted == Len(runs) = 1

\* yield generateSearchScreenshots(yahooArgs): the first pass has resolved
FirstPassAwaited == runs[1].gen = "resolved"

\* no --column option
NoColumn == "undefined"

\* the variables of the CSV reading, of the file naming, of the RateLimiters and
\* of the plugin before any of them has run
ReaderAtRest ==
    /\ csvFile = <<>> /\ column = NoColumn /\ headers = <<>>
    /\ queryColIndex = 0 /\ reading = "none" /\ rowNo = 0
NamingAtRest == naming = <<>>
LimiterAtRest == limiter = <<>> /\ spaced = <<>>
UiAtRest == memory = <<>> /\ matching = <<>> /\ plugin = <<>>

Init ==
    /\ ReaderAtRest /\ NamingAtRest /\ LimiterAtRest /\ UiAtRest
    /\ args \in {a \in [engine : Engines, useChrome : BOOLEAN, compareMode : BOOLEAN,
                        mode : {DefaultMode}, rows : 0..MaxQueries] :
                    a.compareMode => a.rows <= MaxCompareQueries}
    /\ clock = 0
    /\ main = "start"
    /\ runs = <<>>
    /\ queries = <<>>
    /\ i = 0
    /\ tasks = <<>>
    /\ files = {}

\* if (args.compareMode) yield runCompareMode(args); else yield generateSearchScreenshots(args);
Main ==
    /\ main = "start"
    /\ IF args.compareMode
       THEN main' = "compare1" /\ Invoke(yahooArgs(args), clock)
       ELSE main' = "single" /\ Invoke(args, clock)
    /\ UNCHANGED <<others, args, files>>

\* runCompareMode after its first await: the second pass is started, the same
\* second or later
SecondPass ==
    /\ main = "compare1"
    /\ FirstPassAwaited
    /\ main' = "compare2"
    /\ \E t \in clock..MaxTime : Invoke(compareArgs(args), t)
    /\ UNCHANGED <<others, args, files>>

\* the last invocation has resolved: runCompareMode / the top-level function ends
Finish ==
    /\ main \in {"single", "compare2"}
    /\ run.gen = "resolved"
    /\ main' = "done"
    /\ UNCHANGED <<others, args, clock, runs, queries, i, tasks, files>>

----------------------------------------------------------------------------
(* generateSearchScreenshots: its continuations *)

Running == main \in {"single", "compare1", "compare2"}

\* chromium.launchPersistentContext / chromium.launch + browser.newContext resolve,
\* and the batch loop starts
LaunchOk ==
    /\ Running /\ run.gen = "launch"
    /\ LET p == shouldUseChrome(run.useChrome, run.engine)
           r == [run EXCEPT !.browser = "open", !.context = "open", !.persistent = p]
       IN  LoopFrom(0, r, queries, tasks)
    /\ UNCHANGED <<others, args, clock, main, queries, files>>

\* the launch or the context creation throws
LaunchFail ==
    /\ Running /\ run.gen = "launch"
    /\ Reject(run)
    /\ UNCHANGED <<others, args, clock, queries, i, tasks, files>>

\* Promise.all(batchPromises) is fulfilled: i += batchSize and the loop goes on
BatchDone ==
    /\ Running /\ run.gen = "batch"
    /\ BatchSettled
    /\ LoopFrom(i + batchSize(run.useChrome), run, queries, tasks)
    /\ UNCHANGED <<others, args, clock, main, queries, files>>

\* context.close() resolves (closing a persistent context closes its browser);
\* if (!useChrome) browser.close() is called
ContextClosed ==
    /\ Running /\ run.gen = "closeContext"
    /\ runs' = [runs EXCEPT ![cur] =
                  [run EXCEPT !.context = "closed",
                              !.browser = IF run.persistent THEN "closed" ELSE @,
                              !.gen = IF ~run.useChrome THEN "closeBrowser" ELSE "resolved"]]
    /\ UNCHANGED <<others, args, clock, main, queries, i, tasks, files>>

\* browser.close() resolves
BrowserClosed ==
    /\ Running /\ run.gen = "closeBrowser"
    /\ runs' = [runs EXCEPT ![cur] = [run EXCEPT !.browser = "closed", !.gen = "resolved"]]
    /\ UNCHANGED <<others, args, clock, main, queries, i, tasks, files>>

----------------------------------------------------------------------------
(* processQuery: its continuations, for the call at position k of the queries *)

Awaiting(k, pc) ==
    /\ Running /\ run.gen = "batch"
    /\ k \in 1..Len(tasks)
    /\ tasks[k].status = "running"
    /\ tasks[k].pc = pc

\* while (retries <= maxRetries && !success)
LoopTest(t) == t.retries <= maxRetries /\ ~t.success

\* catch (err) { retries++; if (retries <= maxRetries) { warn; wait 1 s } else { error } }
\* up to its await: the backoff timer is started, or console.error reports the
\* query as failed and the finally block is entered
Catch(t) ==
    [t EXCEPT !.retries = @ + 1,
              !.pc = IF t.retries + 1 <= maxRetries THEN "backoff" ELSE "close",
              !.reported = t.retries + 1 > maxRetries]

\* a detection that costs a retry in the visible browser as well
OnCaptchaCounted(t, useChrome) ==
    IF useChrome
    THEN [t EXCEPT !.retries = @ + 1, !.pc = "captchaWait"]
    ELSE [t EXCEPT !.retries = @ + 1, !.allThrew = FALSE, !.pc = "close"]

\* a `continue` that leaves the try statement without running its finally block
OnCaptchaNoFinally(t, useChrome) ==
    IF useChrome
    THEN [t EXCEPT !.pc = "captchaWait"]
    ELSE [t EXCEPT !.retries = @ + 1, !.allThrew = FALSE,
                   !.pc = IF t.retries + 1 <= maxRetries THEN "newPage" ELSE "close"]

\* if (hasCaptcha) { if (useChrome) wait 30 s; else { warn; retries++; continue; } }
\* up to its await: the 30 s timer is started, or the finally block is entered
\* (the warning says that a CAPTCHA was seen, not that the query failed)
OnCaptcha(t, useChrome) ==
    IF useChrome
    THEN [t EXCEPT !.pc = "captchaWait"]
    ELSE [t EXCEPT !.retries = @ + 1, !.allThrew = FALSE, !.pc = "close"]

\* context.newPage() resolves: the attempt has its page, page.goto(url) is called
NewPageOk(k) ==
    /\ Awaiting(k, "newPage")
    /\ tasks' = [tasks EXCEPT ![k] =
                    [@ EXCEPT !.pages = @ + 1, !.attempts = @ + 1, !.pc = "visit"]]
    /\ UNCHANGED <<others, args, clock, main, runs, queries, i, files>>

\* context.newPage() throws, outside the try block: processQuery rejects, and with
\* it Promise.all, generateSearchScreenshots and the top-level function
NewPageFail(k) ==
    /\ Awaiting(k, "newPage")
    /\ tasks' = [tasks EXCEPT ![k] =
                    [@ EXCEPT !.attempts = @ + 1, !.status = "rejected", !.pc = "done"]]
    /\ Reject(run)
    /\ UNCHANGED <<others, args, clock, queries, i, files>>

\* page.goto, the random wait, waitForLoadState and the CAPTCHA check settle; on a
\* clean page page.waitForTimeout(delay * 1000) is called
Visit(k) ==
    /\ Awaiting(k, "visit")
    /\ \E outcome \in {"throws", "captcha", "clean"} :
          tasks' = [tasks EXCEPT ![k] =
                       CASE outcome = "throws"  -> Catch(@)
                         [] outcome = "captcha" -> OnCaptcha(@, run.useChrome)
                         [] outcome = "clean"   -> [@ EXCEPT !.pc = "capture"]]
    /\ UNCHANGED <<others, args, clock, main, runs, queries, i, files>>

\* page.waitForTimeout(30000) settles; page.waitForTimeout(delay * 1000) is called
CaptchaWait(k) ==
    /\ Awaiting(k, "captchaWait")
    /\ \E outcome \in {"throws", "elapsed"} :
          tasks' = [tasks EXCEPT ![k] =
                       IF outcome = "throws" THEN Catch(@) ELSE [@ EXCEPT !.pc = "capture"]]
    /\ UNCHANGED <<others, args, clock, main, runs, queries, i, files>>

\* the file page.screenshot writes for task t of the latest invocation
Written(k, t) ==
    [path |-> filepath(run.outputDir,
                       filename(t.query, t.index, run.engine, deviceName(run.mode))),
     by |-> k, run |-> cur]

\* the delay elapses and page.screenshot({ path: filepath, ... }) writes the file:
\* success = true
ScreenshotOk(k) ==
    /\ Awaiting(k, "capture")
    /\ files' = files \cup {Written(k, tasks[k])}
    /\ tasks' = [tasks EXCEPT ![k] =
                    [@ EXCEPT !.success = TRUE, !.allThrew = FALSE, !.pc = "close"]]
    /\ UNCHANGED <<others, args, clock, main, runs, queries, i>>

\* the delay or page.screenshot throws: no file
ScreenshotFail(k) ==
    /\ Awaiting(k, "capture")
    /\ tasks' = [tasks EXCEPT ![k] = Catch(@)]
    /\ UNCHANGED <<others, args, clock, main, runs, queries, i, files>>

\* the 1 s timer of the catch block elapses: the finally block is entered
Backoff(k) ==
    /\ Awaiting(k, "backoff")
    /\ tasks' = [tasks EXCEPT ![k] = [@ EXCEPT !.pc = "close"]]
    /\ UNCHANGED <<others, args, clock, main, runs, queries, i, files>>

\* bar.tick({ query: ... }), the last statement of processQuery in
\* search_screenshot.tsx (the compiled script logs instead)
Tick(r) == [r EXCEPT !.ticks = @ + 1]

\* finally { yield page.close(); } resolves: the loop test runs again, and
\* processQuery calls context.newPage() once more or ticks the bar and resolves
ClosePage(k) ==
    /\ Awaiting(k, "close")
    /\ IF LoopTest(tasks[k])
       THEN /\ tasks' = [tasks EXCEPT ![k] = [@ EXCEPT !.pages = @ - 1, !.pc = "newPage"]]
            /\ runs' = runs
       ELSE /\ tasks' = [tasks EXCEPT ![k] =
                            [@ EXCEPT !.pages = @ - 1, !.pc = "done", !.status = "resolved"]]
            /\ runs' = [runs EXCEPT ![cur] = Tick(run)]
    /\ UNCHANGED <<others, args, clock, main, queries, i, files>>

----------------------------------------------------------------------------

Next ==
    \/ Main
    \/ SecondPass
    \/ Finish
    \/ LaunchOk
    \/ LaunchFail
    \/ BatchDone
    \/ ContextClosed
    \/ BrowserClosed
    \/ \E k \in 1..MaxQueries + 1 :
          \/ NewPageOk(k)
          \/ NewPageFail(k)
          \/ Visit(k)
          \/ CaptchaWait(k)
          \/ ScreenshotOk(k)
          \/ ScreenshotFail(k)
          \/ Backoff(k)
          \/ ClosePage(k)

Spec == Init /\ [][Next]_vars

----------------------------------------------------------------------------
(* The CSV reading of generateSearchScreenshots: string functions *)

LowerSeq == <<"a","b","c","d","e","f","g","h","i","j","k","l","m",
              "n","o","p","q","r","s","t","u","v","w","x","y","z">>
UpperSeq == <<"A","B","C","D","E","F","G","H","I","J","K","L","M",
              "N","O","P","Q","R","S","T","U","V","W","X","Y","Z">>

\* s.toLowerCase()
toLowerCase(s) ==
    [k \in 1..Len(s) |->
        IF s[k] \in Upper
        THEN LowerSeq[CHOOSE n \in 1..Len(UpperSeq) : UpperSeq[n] = s[k]]
        ELSE s[k]]

\* s.includes(sub)
includes(s, sub) ==
    \E k \in 0..(Len(s) - Len(sub)) : SubSeq(s, k + 1, k + Len(sub)) = sub

\* hdrs.findIndex(test), given the positions (from 1) of the headers that pass
\* the test: the index (from 0) of the first of them, -1 when there is none
findIndex(passing) ==
    IF passing = {} THEN -1
    ELSE (CHOOSE k \in passing : \A j \in passing : k <= j) - 1

\* the value of a string of decimal digits
AllDigits(s) == s # <<>> /\ \A k \in 1..Len(s) : s[k] \in Digit
RECURSIVE DigitsValue(_)
DigitsValue(s) ==
    IF s = <<>> THEN 0
    ELSE 10 * DigitsValue(SubSeq(s, 1, Len(s) - 1))
            + ((CHOOSE n \in 1..Len(DigitChar) : DigitChar[n] = s[Len(s)]) - 1)

\* Number(s) and isNaN(Number(s)) for a string of letters, digits and blanks that
\* is no exponent, radix prefix or "Infinity": white space around the digits is
\* dropped, and a string of nothing but white space converts to 0
isNaNNumber(s) == trim(s) # <<>> /\ ~AllDigits(trim(s))
Number(s) == DigitsValue(trim(s))

----------------------------------------------------------------------------
(* The CSV reading: the 'headers' handler *)

\* the header the tool looks for when no column is given
queryWord == <<"q","u","e","r","y">>

\* hdrs.findIndex(h => h.toLowerCase() === column.toLowerCase())
exactMatch(hdrs, col) ==
    findIndex({k \in 1..Len(hdrs) : toLowerCase(hdrs[k]) = toLowerCase(col)})

\* hdrs.findIndex(h => h.toLowerCase().includes(column.toLowerCase()))
partialMatch(hdrs, col) ==
    findIndex({k \in 1..Len(hdrs) : includes(toLowerCase(hdrs[k]), toLowerCase(col))})

\* hdrs.findIndex(h => h.toLowerCase() === 'query')
queryColMatch(hdrs) == findIndex({k \in 1..Len(hdrs) : toLowerCase(hdrs[k]) = queryWord})

\* a resolution that tries the partial match first
ResolvePartialFirst(col, hdrs) ==
    IF col # NoColumn /\ col # <<>>
    THEN IF ~isNaNNumber(col) THEN Number(col)
         ELSE IF partialMatch(hdrs, col) >= 0 THEN partialMatch(hdrs, col)
         ELSE IF exactMatch(hdrs, col) >= 0 THEN exactMatch(hdrs, col)
         ELSE 0
    ELSE IF queryColMatch(hdrs) >= 0 THEN queryColMatch(hdrs) ELSE 0

\* the value the handler leaves in queryColIndex (0 before it runs): if (column)
\* { idx = Number(column); if (!isNaN(idx)) idx; else exact match, else partial
\* match, else 0 } else { the column named "query", else 0 }
ResolveColumn(col, hdrs) ==
    IF col # NoColumn /\ col # <<>>
    THEN IF ~isNaNNumber(col) THEN Number(col)
         ELSE IF exactMatch(hdrs, col) >= 0 THEN exactMatch(hdrs, col)
         ELSE IF partialMatch(hdrs, col) >= 0 THEN partialMatch(hdrs, col)
         ELSE 0
    ELSE IF queryColMatch(hdrs) >= 0 THEN queryColMatch(hdrs) ELSE 0

----------------------------------------------------------------------------
(* The CSV reading: csv-parser's rows and the second pass *)

\* csv-parser names the cell at position j (from 1) of a row after the header at
\* that position, and `_${index}` where the header line has no cell
KeyAt(hdrs, j) == IF j <= Len(hdrs) THEN hdrs[j] ELSE <<"_">> \o NatToString(j - 1)

\* a property name that is an array index: a canonical decimal number
IsArrayIndex(key) == AllDigits(key) /\ (Len(key) = 1 \/ Head(key) # "0")

\* the order of an object's own properties: the array indices in ascending
\* order, then the other names in the order they were first assigned; a and b
\* are the positions at which two different names were first assigned
Before(ks, a, b) ==
    IF IsArrayIndex(ks[a])
    THEN ~IsArrayIndex(ks[b]) \/ DigitsValue(ks[a]) < DigitsValue(ks[b])
    ELSE ~IsArrayIndex(ks[b]) /\ a < b

RECURSIVE OwnKeys(_, _)
OwnKeys(ks, at) ==
    IF at = {} THEN <<>>
    ELSE LET first == CHOOSE a \in at : \A b \in at \ {a} : Before(ks, a, b)
         IN  <<first>> \o OwnKeys(ks, at \ {first})

\* Object.values(row) for the row csv-parser makes of a line: the row is a plain
\* object, each cell assigned to it under its name in turn, so a name that occurs
\* twice keeps its first place and its last cell
ObjectValues(hdrs, cells) ==
    LET ks == [j \in 1..Len(cells) |-> KeyAt(hdrs, j)]
        firstAt == {j \in 1..Len(ks) : \A m \in 1..(j - 1) : ks[m] # ks[j]}
        order == OwnKeys(ks, firstAt)
        last(key) == CHOOSE j \in 1..Len(ks) :
                        ks[j] = key /\ \A m \in (j + 1)..Len(ks) : ks[m] # key
    IN  [n \in 1..Len(order) |-> cells[last(ks[order[n]])]]

\* const query = cols[queryColIndex]; if (query?.trim()) queries.push(query.trim())
pushQuery(qs, cols, idx) ==
    IF idx + 1 \in 1..Len(cols) /\ trim(cols[idx + 1]) # <<>>
    THEN Append(qs, trim(cols[idx + 1]))
    ELSE qs

----------------------------------------------------------------------------
(* The CSV reading: the files and options it is run on *)

MaxRows == 2     \* most data rows of a CSV file

hQuery == <<"Q","u","e","r","y">>
hMyQuery == <<"m","y","q","u","e","r","y">>
hNotes == <<"n","o","t","e","s">>
hDate == <<"d","a","t","e">>
hOne == <<"1">>

HeaderLines ==
    { <<>>, <<hNotes>>, <<hNotes, hQuery, hDate>>, <<hMyQuery, hQuery>>,
      <<hNotes, hMyQuery>>, <<hQuery, hOne>>, <<hOne, hQuery>>, <<hQuery, hQuery>> }

cCat == <<" ","c","a","t"," ">>
cDog == <<"d","o","g">>
cBlank == <<" ">>

RowPool ==
    { <<>>, <<cCat>>, <<cDog, cCat>>, <<cBlank, cDog>>, <<cDog, cDog>>,
      <<cCat, <<>>, cDog>> }

RECURSIVE SeqsUpTo(_, _)
SeqsUpTo(S, n) ==
    IF n = 0 THEN { <<>> }
    ELSE SeqsUpTo(S, n - 1)
            \cup { Append(q, x) : q \in {p \in SeqsUpTo(S, n - 1) : Len(p) = n - 1}, x \in S }

\* a file of no line at all, or a header line and up to MaxRows data lines
CsvFiles == { <<>> } \cup { <<h>> \o rows : h \in HeaderLines, rows \in SeqsUpTo(RowPool, MaxRows) }

\* the --column options: none, the empty string, names and numbers
Columns ==
    { NoColumn, <<>>, queryWord, <<"Q","U","E","R","Y">>, <<"q","u","e">>,
      <<"z","z">>, <<"0">>, <<"1">>, <<"2">> }

\* the capture pipeline before the top-level function has run
PipelineAtRest ==
    /\ args = [engine |-> "yahoo", useChrome |-> FALSE, compareMode |-> FALSE,
               mode |-> DefaultMode, rows |-> 0]
    /\ clock = 0 /\ main = "start" /\ runs = <<>> /\ i = 0 /\ tasks = <<>> /\ files = {}

----------------------------------------------------------------------------
(* The CSV reading: generateSearchScreenshots from its call to the end of the
   second pass.  The file exists and can be read. *)

\* what the reading leaves alone
aside == <<args, clock, main, runs, i, tasks, files, naming, limiter, spaced, uiVars>>

\* the call: queries = [], headers = [], queryColIndex = 0, and the first pass
\* waits for the parser's 'headers' event
CsvInit ==
    /\ PipelineAtRest /\ NamingAtRest /\ LimiterAtRest /\ UiAtRest
    /\ csvFile \in CsvFiles
    /\ column \in Columns
    /\ queries = <<>>
    /\ headers = <<>>
    /\ queryColIndex = 0
    /\ reading = "headers"
    /\ rowNo = 0

\* .on('headers', hdrs => { headers.push(...hdrs); queryColIndex = ...; resolve() }):
\* the parser has read the first line; the second pass starts
OnHeaders ==
    /\ reading = "headers"
    /\ csvFile # <<>>
    /\ headers' = headers \o csvFile[1]
    /\ queryColIndex' = ResolveColumn(column, csvFile[1])
    /\ reading' = "rows"
    /\ UNCHANGED <<aside, csvFile, column, rowNo, queries>>

\* The stream of a file without a line ends: the parser emits neither 'headers'
\* nor 'error', so the promise of the first pass is never settled; nothing is
\* left to run and the process exits.
EndOfEmptyFile ==
    /\ reading = "headers"
    /\ csvFile = <<>>
    /\ reading' = "pending"
    /\ UNCHANGED <<aside, csvFile, column, headers, queryColIndex, rowNo, queries>>

\* one turn of the for-await loop of the second pass, on the next data line
OnRow ==
    /\ reading = "rows"
    /\ rowNo < Len(csvFile) - 1
    /\ queries' = pushQuery(queries, ObjectValues(csvFile[1], csvFile[rowNo + 2]),
                            queryColIndex)
    /\ rowNo' = rowNo + 1
    /\ UNCHANGED <<aside, csvFile, column, headers, queryColIndex, reading>>

\* the source is done: the pipeline of the second pass resolves and
\* generateSearchScreenshots goes on to launch the browser
EndOfRows ==
    /\ reading = "rows"
    /\ rowNo = Len(csvFile) - 1
    /\ reading' = "done"
    /\ UNCHANGED <<aside, csvFile, column, headers, queryColIndex, rowNo, queries>>

CsvNext ==
    \/ OnHeaders
    \/ EndOfEmptyFile
    \/ OnRow
    \/ EndOfRows

CsvSpec == CsvInit /\ [][CsvNext]_vars

----------------------------------------------------------------------------
(* The file naming of processQuery: one call, from its arguments to the path
   that each attempt hands to page.screenshot *)

MaxNameIndex == 10   \* the calls named have the indices 0..MaxNameIndex, 99 and 999

Repeat(c, n) == [k \in 1..n |-> c]

\* queries as the second pass extracts them: trimmed and not empty
NameQueries ==
    { <<"c","a","t">>,
      <<"C","+","+"," ","v","s",".","_","c","#","9">>,
      Repeat("x", 40),
      Repeat("y", 45),
      Repeat("a", 39) \o <<" ","b">>,
      <<"c","a","t">> \o Repeat(" ", 40) \o <<"!">> }

NameIndices == 0..MaxNameIndex \cup {99, 999}

\* the call processQuery(query, index, engine, deviceName, context, output, ...)
NameInit ==
    /\ PipelineAtRest /\ queries = <<>> /\ ReaderAtRest /\ LimiterAtRest /\ UiAtRest
    /\ naming \in [pc : {"call"}, query : NameQueries, index : NameIndices,
                   engine : Engines, deviceName : {deviceName(m) : m \in Modes},
                   filename : {<<>>}, filepath : {<<>>}, retries : {0}, used : {{}}]

\* const safeQuery = ...; const filename = ...; const filepath = path.join(output,
\* filename); let retries = 0
NameFile ==
    /\ naming.pc = "call"
    /\ LET name == filename(naming.query, naming.index, naming.engine, naming.deviceName)
       IN  naming' = [naming EXCEPT !.pc = "loop", !.filename = name,
                                    !.filepath = filepath("output", name)]
    /\ UNCHANGED <<pipelineVars, readerVars, limiter, spaced, uiVars>>

\* an attempt that reaches page.screenshot({ path: filepath, ... }) and throws or
\* is retried: retries++
NameAttempt ==
    /\ naming.pc = "loop"
    /\ naming.retries <= maxRetries
    /\ naming' = [naming EXCEPT !.retries = @ + 1, !.used = @ \cup {naming.filepath}]
    /\ UNCHANGED <<pipelineVars, readerVars, limiter, spaced, uiVars>>

\* the attempt whose screenshot is written, or the loop test that fails
NameDone ==
    /\ naming.pc = "loop"
    /\ naming' = [naming EXCEPT !.pc = "done",
                     !.used = IF naming.retries <= maxRetries
                              THEN @ \cup {naming.filepath} ELSE @]
    /\ UNCHANGED <<pipelineVars, readerVars, limiter, spaced, uiVars>>

NameNext ==
    \/ NameFile
    \/ NameAttempt
    \/ NameDone

NameSpec == NameInit /\ [][NameNext]_vars

----------------------------------------------------------------------------
(* The RateLimiter (src/utils/RateLimiter.ts): one limiter, the functions added
   to it and the clock it reads.  Times are in milliseconds.  The functions are
   numbered in the order of the add() calls; fns[n] is what the n-th function
   does when it is run, promises[n] the promise add() returned for it.  chains
   counts the processQueue() calls that add() made and that have not returned,
   a call at the end of processQueue() carrying on the chain of its caller. *)

maxRequestsPerSecond == 5    \* constructor(maxRequestsPerSecond = 5)
Second == 1000               \* the window of processQueue, in ms

MaxAdds == 9           \* most calls of add()
MaxRejects == 1        \* most functions added that reject
ClockStep == 500       \* the clock advances in steps of ClockStep ms
MaxClockSteps == 4     \* ... at most MaxClockSteps times

\* const fn = this.queue.shift(); await fn(): the function is started now
StartFn(l) ==
    [l EXCEPT !.queue = Tail(@), !.started = Append(@, l.now),
              !.order = Append(@, Head(l.queue)), !.pc = "fn"]

\* processQueue() from its entry to its first await, or to its return
processQueue(l) ==
    IF l.queue = <<>>
    THEN [l EXCEPT !.processing = FALSE, !.pc = "idle", !.chains = @ - 1]
    ELSE LET within == l.now - l.lastRequestTime < Second
         IN  IF within
             THEN IF l.requestsInLastSecond + 1 >= maxRequestsPerSecond
                  THEN \* await new Promise(resolve => setTimeout(resolve, waitTime))
                       [l EXCEPT !.processing = TRUE,
                                 !.requestsInLastSecond = @ + 1,
                                 !.pc = "wait",
                                 !.timer = l.now + (Second - (l.now - l.lastRequestTime))]
                  ELSE StartFn([l EXCEPT !.processing = TRUE,
                                         !.requestsInLastSecond = @ + 1])
             ELSE StartFn([l EXCEPT !.processing = TRUE,
                                    !.lastRequestTime = l.now,
                                    !.requestsInLastSecond = 1])

\* a wrapper that resolves the promise whatever the function does
settleResolved(outcome) == "resolved"

\* the function add() queues: try { resolve(await fn()) } catch (err) { reject(err);
\* throw err }: what becomes of the promise when fn resolves or rejects
settle(outcome) == IF outcome = "resolves" THEN "resolved" ELSE "rejected"

\* the functions that can be added: they resolve or reject when they are run
FnOutcomes == {"resolves", "rejects"}

\* new RateLimiter(5), at a time when Date.now() is at least a second
NewLimiter ==
    [queue |-> <<>>, processing |-> FALSE, lastRequestTime |-> 0,
     requestsInLastSecond |-> 0, pc |-> "idle", timer |-> 0,
     now |-> Second, steps |-> 0, adds |-> 0, started |-> <<>>,
     order |-> <<>>, fns |-> <<>>, promises |-> <<>>, chains |-> 0]

\* new RateLimiter(5) of utils/index.ts
NewSpaced ==
    [queue |-> <<>>, running |-> FALSE, pc |-> "idle", adds |-> 0,
     order |-> <<>>, settled |-> {}, chains |-> 0]

\* one of the two limiters is constructed
LimiterInit ==
    /\ PipelineAtRest /\ queries = <<>> /\ ReaderAtRest /\ NamingAtRest /\ UiAtRest
    /\ \/ limiter = NewLimiter /\ spaced = <<>>
       \/ limiter = <<>> /\ spaced = NewSpaced

\* an add() that starts the queue processing whether or not it is under way
AddUnguarded ==
    /\ limiter # <<>>
    /\ limiter.adds < MaxAdds
    /\ \E fn \in FnOutcomes :
          /\ fn = "rejects" =>
                Cardinality({n \in 1..limiter.adds : limiter.fns[n] = "rejects"}) < MaxRejects
          /\ LET l == [limiter EXCEPT !.queue = Append(@, limiter.adds + 1),
                                      !.adds = @ + 1,
                                      !.fns = Append(@, fn),
                                      !.promises = Append(@, "pending")]
             IN  limiter' = processQueue([l EXCEPT !.chains = @ + 1])
    /\ UNCHANGED <<pipelineVars, readerVars, naming, spaced, uiVars>>

\* add(fn): return new Promise(...): this.queue.push(...);
\* if (!this.processing) this.processQueue()
Add ==
    /\ limiter # <<>>
    /\ limiter.adds < MaxAdds
    /\ \E fn \in FnOutcomes :
          /\ fn = "rejects" =>
                Cardinality({n \in 1..limiter.adds : limiter.fns[n] = "rejects"}) < MaxRejects
          /\ LET l == [limiter EXCEPT !.queue = Append(@, limiter.adds + 1),
                                      !.adds = @ + 1,
                                      !.fns = Append(@, fn),
                                      !.promises = Append(@, "pending")]
             IN  limiter' = IF ~l.processing
                            THEN processQueue([l EXCEPT !.chains = @ + 1])
                            ELSE l
    /\ UNCHANGED <<pipelineVars, readerVars, naming, spaced, uiVars>>

\* the timer of the wait fires, at its time or later: this.lastRequestTime =
\* Date.now(); this.requestsInLastSecond = 0; and the next function is started
TimerFires ==
    /\ limiter # <<>>
    /\ limiter.pc = "wait"
    /\ limiter.now >= limiter.timer
    /\ limiter' = StartFn([limiter EXCEPT !.lastRequestTime = limiter.now,
                                          !.requestsInLastSecond = 0])
    /\ UNCHANGED <<pipelineVars, readerVars, naming, spaced, uiVars>>

\* the function that was started settles, and the queued wrapper settles the
\* promise of add(); the continuation of processQueue is scheduled
FnSettles ==
    /\ limiter # <<>>
    /\ limiter.pc = "fn"
    /\ LET n == limiter.order[Len(limiter.order)]
       IN  limiter' = [limiter EXCEPT !.promises[n] = settle(limiter.fns[n]),
                                      !.pc = "next"]
    /\ UNCHANGED <<pipelineVars, readerVars, naming, spaced, uiVars>>

\* await fn() is over (an error is caught and logged): this.processQueue()
Resume ==
    /\ limiter # <<>>
    /\ limiter.pc = "next"
    /\ limiter' = processQueue(limiter)
    /\ UNCHANGED <<pipelineVars, readerVars, naming, spaced, uiVars>>

\* time passes
ClockAdvances ==
    /\ limiter # <<>>
    /\ limiter.steps < MaxClockSteps
    /\ limiter' = [limiter EXCEPT !.now = @ + ClockStep, !.steps = @ + 1]
    /\ UNCHANGED <<pipelineVars, readerVars, naming, spaced, uiVars>>

----------------------------------------------------------------------------
(* The RateLimiter of utils/index.ts, which pauses 1000 / requestsPerSecond ms
   after each function *)

\* processQueue() of utils/index.ts from its entry to its first await, or to its
\* return: this.running = true; const fn = this.queue.shift(); await fn()
spacedProcessQueue(l) ==
    IF l.queue = <<>>
    THEN [l EXCEPT !.running = FALSE, !.pc = "idle", !.chains = @ - 1]
    ELSE [l EXCEPT !.running = TRUE, !.queue = Tail(@),
                   !.order = Append(@, Head(l.queue)), !.pc = "fn"]

\* add(fn): this.queue.push(...); if (!this.running) this.processQueue()
SpacedAdd ==
    /\ spaced # <<>>
    /\ spaced.adds < MaxAdds
    /\ LET l == [spaced EXCEPT !.queue = Append(@, spaced.adds + 1), !.adds = @ + 1]
       IN  spaced' = IF ~l.running
                     THEN spacedProcessQueue([l EXCEPT !.chains = @ + 1])
                     ELSE l
    /\ UNCHANGED <<pipelineVars, readerVars, naming, limiter, uiVars>>

\* await fn() settles (an error is logged):
\* await new Promise(resolve => setTimeout(resolve, 1000 / this.requestsPerSecond))
SpacedFnSettles ==
    /\ spaced # <<>>
    /\ spaced.pc = "fn"
    /\ spaced' = [spaced EXCEPT !.settled = @ \cup {spaced.order[Len(spaced.order)]},
                                !.pc = "pause"]
    /\ UNCHANGED <<pipelineVars, readerVars, naming, limiter, uiVars>>

\* the pause is over: this.processQueue()
SpacedPauseOver ==
    /\ spaced # <<>>
    /\ spaced.pc = "pause"
    /\ spaced' = spacedProcessQueue(spaced)
    /\ UNCHANGED <<pipelineVars, readerVars, naming, limiter, uiVars>>

LimiterNext ==
    \/ Add
    \/ TimerFires
    \/ FnSettles
    \/ Resume
    \/ ClockAdvances
    \/ SpacedAdd
    \/ SpacedFnSettles
    \/ SpacedPauseOver

LimiterSpec == LimiterInit /\ [][LimiterNext]_vars

----------------------------------------------------------------------------
(* The MemoryManager (the class at the end of src/utils/ErrorTracker.js): one
   manager and the clock it reads.  imageCache is a Map: the sequence of its
   entries in insertion order.  `last` is the latest call: what it returned,
   the age of the entry it found and the entries it removed.  A call runs
   within one reading of the clock. *)

maxCacheSize == 2      \* new MemoryManager(maxCacheSize, cacheTTL): the model's sizes
cacheTTL == 2          \* ... in clock ticks
MaxImages == 3         \* the image ids are 1..MaxImages
MaxNow == 3            \* the clock runs from 0 to MaxNow

ImageIds == 1..MaxImages
Hashes == {"h1", "h2"}

\* s without the elements at the positions ps
RECURSIVE Without(_, _)
Without(s, ps) ==
    IF s = <<>> THEN <<>>
    ELSE LET front == Without(SubSeq(s, 1, Len(s) - 1), ps)
         IN  IF Len(s) \in ps THEN front ELSE Append(front, s[Len(s)])

\* this.imageCache.has(id), this.imageCache.get(id)
has(cache, id) == \E p \in 1..Len(cache) : cache[p].id = id
get(cache, id) == cache[CHOOSE p \in 1..Len(cache) : cache[p].id = id]

\* this.imageCache.set(id, { hash, lastUsed }): a key that exists keeps its place
set(cache, id, hash, lastUsed) ==
    LET e == [id |-> id, hash |-> hash, lastUsed |-> lastUsed]
    IN  IF has(cache, id)
        THEN [p \in 1..Len(cache) |-> IF cache[p].id = id THEN e ELSE cache[p]]
        ELSE Append(cache, e)

\* for (const [id, entry] of entries()) if (now - entry.lastUsed > cacheTTL) delete(id)
ttlPass(cache, now) ==
    Without(cache, {p \in 1..Len(cache) : now - cache[p].lastUsed > cacheTTL})

\* an eviction in the order of insertion
entriesToRemoveFirstInserted(cache) == 1..(Len(cache) - maxCacheSize)

\* entries.sort((a, b) => a[1].lastUsed - b[1].lastUsed).slice(0, entries.length -
\* maxCacheSize): the positions of the entries to remove (the sort is stable)
entriesToRemove(cache) ==
    {p \in 1..Len(cache) :
        Cardinality({q \in 1..Len(cache) :
                        \/ cache[q].lastUsed < cache[p].lastUsed
                        \/ cache[q].lastUsed = cache[p].lastUsed /\ q < p})
            < Len(cache) - maxCacheSize}

\* cleanCache()
cleanCache(cache, now) ==
    LET fresh == ttlPass(cache, now)
    IN  IF Len(fresh) > maxCacheSize
        THEN Without(fresh, entriesToRemove(fresh))
        ELSE fresh

\* the record of a call: the entries of `before` that `after` no longer holds
Call(op, id, result, age, before, after) ==
    [op |-> op, id |-> id, result |-> result, age |-> age,
     removed |-> {[id |-> before[p].id, lastUsed |-> before[p].lastUsed] :
                     p \in {q \in 1..Len(before) : ~has(after, before[q].id)}}]

\* new MemoryManager(maxCacheSize, cacheTTL)
MemoryInit ==
    /\ PipelineAtRest /\ queries = <<>> /\ ReaderAtRest /\ NamingAtRest /\ LimiterAtRest
    /\ matching = <<>> /\ plugin = <<>>
    /\ memory = [cache |-> <<>>, now |-> 0,
                 last |-> Call("new", 0, "null", 0, <<>>, <<>>)]

\* cacheImage(imageId, imageHash)
CacheImage ==
    \E id \in ImageIds, hash \in Hashes :
        LET stored == set(memory.cache, id, hash, memory.now)
            after == IF Len(stored) > maxCacheSize
                     THEN cleanCache(stored, memory.now)
                     ELSE stored
        IN  /\ memory' = [memory EXCEPT !.cache = after,
                             !.last = Call("cacheImage", id, "null", 0, stored, after)]
            /\ UNCHANGED <<pipelineVars, readerVars, naming, limiter, spaced,
                           matching, plugin>>

\* getImageHash(imageId): null, or the hash of the entry, whose lastUsed is set
\* to Date.now()
GetImageHash ==
    \E id \in ImageIds :
        /\ IF ~has(memory.cache, id)
           THEN memory' = [memory EXCEPT
                              !.last = Call("getImageHash", id, "null", 0, <<>>, <<>>)]
           ELSE LET entry == get(memory.cache, id)
                IN  memory' = [memory EXCEPT
                       !.cache = set(@, id, entry.hash, memory.now),
                       !.last = Call("getImageHash", id, entry.hash,
                                     memory.now - entry.lastUsed, <<>>, <<>>)]
        /\ UNCHANGED <<pipelineVars, readerVars, naming, limiter, spaced,
                       matching, plugin>>

\* a call of the public cleanCache()
CleanCache ==
    /\ LET after == cleanCache(memory.cache, memory.now)
       IN  memory' = [memory EXCEPT !.cache = after,
                         !.last = Call("cleanCache", 0, "null", 0, memory.cache, after)]
    /\ UNCHANGED <<pipelineVars, readerVars, naming, limiter, spaced, matching, plugin>>

\* time passes: Date.now() does not go back
MemoryTick ==
    /\ memory.now < MaxNow
    /\ memory' = [memory EXCEPT !.now = @ + 1]
    /\ UNCHANGED <<pipelineVars, readerVars, naming, limiter, spaced, matching, plugin>>

MemoryNext ==
    \/ CacheImage
    \/ GetImageHash
    \/ CleanCache
    \/ MemoryTick

MemorySpec == MemoryInit /\ [][MemoryNext]_vars

----------------------------------------------------------------------------
(* The matching of screenshots to queries in the plugin UI (ui.html):
   extractQueryFromFilename, on the files the capture tool has named *)

MaxMatchQueries == 2   \* most queries of the CSV column

\* filename.replace(/\.(png|jpg|jpeg)$/i, '')
stripExtension(name) ==
    LET low == toLowerCase(name)
        ends(suffix) ==
            /\ Len(low) >= Len(suffix)
            /\ SubSeq(low, Len(low) - Len(suffix) + 1, Len(low)) = suffix
        cut == IF ends(<<".", "p", "n", "g">>) \/ ends(<<".", "j", "p", "g">>) THEN 4
               ELSE IF ends(<<".", "j", "p", "e", "g">>) THEN 5
               ELSE 0
    IN  SubSeq(name, 1, Len(name) - cut)

\* the length of the run of digits s starts with
LeadingDigits(s) ==
    CHOOSE n \in 0..Len(s) :
        /\ \A k \in 1..n : s[k] \in Digit
        /\ n = Len(s) \/ s[n + 1] \notin Digit

\* s.replace(/^\d+[_-]/, '')
stripLeadingNumber(s) ==
    LET d == LeadingDigits(s)
    IN  IF d >= 1 /\ d < Len(s) /\ s[d + 1] \in {"_", "-"}
        THEN SubSeq(s, d + 2, Len(s))
        ELSE s

\* s.replace(/[_-]\d+$/, '')
stripTrailingNumber(s) ==
    LET rev == [k \in 1..Len(s) |-> s[Len(s) + 1 - k]]
        d == LeadingDigits(rev)
    IN  IF d >= 1 /\ d < Len(s) /\ s[Len(s) - d] \in {"_", "-"}
        THEN SubSeq(s, 1, Len(s) - d - 1)
        ELSE s

\* s.replace(/[_-]/g, ' ')
separatorsToSpaces(s) == [k \in 1..Len(s) |-> IF s[k] \in {"_", "-"} THEN " " ELSE s[k]]

\* the file name as both passes of the second approach clean it
cleanFilename(name) ==
    toLowerCase(separatorsToSpaces(stripLeadingNumber(stripExtension(name))))

\* filename.match(/\d+_[a-z]+_[a-z]+_(.+?)_\d{4}-\d{2}-\d{2}T/i): the bounds <<a, b>>
\* of the group of every way the pattern fits the name
standardFormat(name) ==
    LET n == Len(name)
        is(k, S) == k >= 1 /\ k <= n /\ name[k] \in S
        all(a, b, S) == a <= b /\ \A k \in a..b : is(k, S)
        letters == Lower \cup Upper
        stamp(k) ==
            /\ is(k, {"_"}) /\ all(k + 1, k + 4, Digit) /\ is(k + 5, {"-"})
            /\ all(k + 6, k + 7, Digit) /\ is(k + 8, {"-"})
            /\ all(k + 9, k + 10, Digit) /\ is(k + 11, {"T"})
    IN  {ab \in (1..n) \X (1..n) :
            /\ ab[1] <= ab[2] /\ stamp(ab[2] + 1)
            /\ \E d, e, f \in 1..n :
                  /\ d < e /\ e < f /\ f + 2 = ab[1]
                  /\ is(d, Digit) /\ is(d + 1, {"_"}) /\ all(d + 2, e, letters)
                  /\ is(e + 1, {"_"}) /\ all(e + 2, f, letters) /\ is(f + 1, {"_"})}

\* Array.from(knownQueries).sort((a, b) => b.length - a.length): longest first,
\* queries of one length in the order of the set
sortedQueries(known) ==
    LET place(p) ==
            1 + Cardinality({q \in 1..Len(known) :
                                \/ Len(known[q]) > Len(known[p])
                                \/ Len(known[q]) = Len(known[p]) /\ q < p})
    IN  [n \in 1..Len(known) |-> known[CHOOSE p \in 1..Len(known) : place(p) = n]]

\* extractQueryFromFilename(filename, knownQueries), knownQueries in the order of
\* the set
extractQueryFromFilename(name, known) ==
    LET standard == standardFormat(name)
        group == CHOOSE ab \in standard :
                    \A cd \in standard :
                        ab[1] < cd[1] \/ (ab[1] = cd[1] /\ ab[2] <= cd[2])
        underscoresToSpaces(t) == [k \in 1..Len(t) |-> IF t[k] = "_" THEN " " ELSE t[k]]
        clean == cleanFilename(name)
        whole(q) == includes(clean, toLowerCase(q))
        start(q) == Len(q) >= 10 /\ includes(clean, SubSeq(toLowerCase(q), 1, Min(15, Len(q))))
        exact == SelectSeq(sortedQueries(known), whole)
        partial == SelectSeq(sortedQueries(known), start)
    IN  IF standard # {}
        THEN trim(underscoresToSpaces(SubSeq(name, group[1], group[2])))
        ELSE IF exact # <<>> THEN Head(exact)
        ELSE IF partial # <<>> THEN Head(partial)
        ELSE trim(separatorsToSpaces(stripTrailingNumber(
                      stripLeadingNumber(stripExtension(name)))))

\* processScreenshots: queries = new Set(); ... queries.add(query): the queries of
\* the column, each once, in the order of the rows
RECURSIVE knownQueries(_)
knownQueries(qs) ==
    IF qs = <<>> THEN <<>>
    ELSE LET front == knownQueries(SubSeq(qs, 1, Len(qs) - 1))
         IN  IF \E k \in 1..Len(front) : front[k] = qs[Len(qs)]
             THEN front
             ELSE Append(front, qs[Len(qs)])

\* the cells of the query column: trimmed and not empty
MatchQueries ==
    { <<"c","a","t">>, <<"C","a","t","s">>, <<"a"," ","b","!">>,
      <<"m","o","b","i","l","e">>,
      <<"b","e","s","t"," ","c","a","t"," ","f","o","o","d"," ","2","0","2","5">> }

\* the tool is run on a CSV whose query column holds `queries`
MatchInit ==
    /\ PipelineAtRest /\ queries = <<>> /\ ReaderAtRest /\ NamingAtRest /\ LimiterAtRest
    /\ memory = <<>> /\ plugin = <<>>
    /\ matching \in [queries : SeqsUpTo(MatchQueries, MaxMatchQueries) \ {<<>>},
                     engine : Engines, deviceName : {deviceName(m) : m \in Modes},
                     names : {<<>>}, matched : {<<>>}]

\* processQuery names and writes the screenshot of the next query
Capture ==
    /\ Len(matching.names) < Len(matching.queries)
    /\ LET index == Len(matching.names)
       IN  matching' = [matching EXCEPT !.names =
               Append(@, filename(matching.queries[index + 1], index,
                                  matching.engine, matching.deviceName))]
    /\ UNCHANGED <<pipelineVars, readerVars, naming, limiter, spaced, memory, plugin>>

\* processScreenshots, on the files of the run and the same CSV column:
\* const query = extractQueryFromFilename(file.name, queries), for the next file
Match ==
    /\ Len(matching.names) = Len(matching.queries)
    /\ Len(matching.matched) < Len(matching.names)
    /\ matching' = [matching EXCEPT !.matched =
            Append(@, extractQueryFromFilename(matching.names[Len(matching.matched) + 1],
                                               knownQueries(matching.queries)))]
    /\ UNCHANGED <<pipelineVars, readerVars, naming, limiter, spaced, memory, plugin>>

MatchNext ==
    \/ Capture
    \/ Match

MatchSpec == MatchInit /\ [][MatchNext]_vars

----------------------------------------------------------------------------
(* The plugin UI (ui.html): the CSV upload and Load Columns of step 1, the
   column lists, Back and Create Comparison Cards of step 2.  The page is the
   globals csvData, headers, selectedQueryColumn, selectedAdditionalColumns and
   the document: the step that is visible, the items of the two column lists
   and the items that carry the class `selected`.  Column indices count from 0;
   null and the message not yet sent are the empty tuple. *)

MaxSelected == 3       \* most entries of selectedAdditionalColumns

\* the header lines of the CSV files the user can upload
CsvUploads == { <<"Query", "Notes">>, <<"Term">> }

\* populateColumns(): both lists are emptied and filled with one item per header,
\* none of which is selected
populateColumns(ui) ==
    [ui EXCEPT !.items = ui.headers, !.queryItems = {}, !.additionalItems = {}]

\* the page is loaded: step 1 is visible
PluginInit ==
    /\ PipelineAtRest /\ queries = <<>> /\ ReaderAtRest /\ NamingAtRest /\ LimiterAtRest
    /\ memory = <<>> /\ matching = <<>>
    /\ plugin = [step |-> "step1", csvData |-> <<>>, headers |-> <<>>,
                 selectedQueryColumn |-> <<>>, selectedAdditionalColumns |-> <<>>,
                 items |-> <<>>, queryItems |-> {}, additionalItems |-> {},
                 uploaded |-> FALSE, sent |-> <<>>]

\* handleFileSelect: the reader has loaded the file: headers = parseCSVLine(lines[0]);
\* csvData = contents
HandleFileSelect ==
    /\ plugin.step = "step1"
    /\ \E file \in CsvUploads :
          plugin' = [plugin EXCEPT !.headers = file, !.csvData = file]
    /\ UNCHANGED <<pipelineVars, readerVars, naming, limiter, spaced, memory, matching>>

\* Load Columns: goToStep2()
GoToStep2 ==
    /\ plugin.step = "step1"
    /\ plugin.csvData # <<>>
    /\ plugin' = populateColumns([plugin EXCEPT !.step = "step2"])
    /\ UNCHANGED <<pipelineVars, readerVars, naming, limiter, spaced, memory, matching>>

\* Back: goToStep1()
GoToStep1 ==
    /\ plugin.step = "step2"
    /\ plugin' = [plugin EXCEPT !.step = "step1"]
    /\ UNCHANGED <<pipelineVars, readerVars, naming, limiter, spaced, memory, matching>>

\* a click on an item of the query column list: columnEl.onclick
ClickQueryColumn ==
    /\ plugin.step = "step2"
    /\ \E index \in 0..Len(plugin.items) - 1 :
          plugin' = [plugin EXCEPT
              !.queryItems = {index},
              !.selectedQueryColumn = [index |-> index, name |-> plugin.items[index + 1]]]
    /\ UNCHANGED <<pipelineVars, readerVars, naming, limiter, spaced, memory, matching>>

\* a click on an item of the additional column list: additionalEl.onclick
ClickAdditionalColumn ==
    /\ plugin.step = "step2"
    /\ \E index \in 0..Len(plugin.items) - 1 :
          IF index \notin plugin.additionalItems
          THEN /\ Len(plugin.selectedAdditionalColumns) < MaxSelected
               /\ plugin' = [plugin EXCEPT
                      !.additionalItems = @ \cup {index},
                      !.selectedAdditionalColumns =
                          Append(@, [index |-> index, name |-> plugin.items[index + 1]])]
          ELSE LET kept(col) == col.index # index
               IN  plugin' = [plugin EXCEPT
                      !.additionalItems = @ \ {index},
                      !.selectedAdditionalColumns = SelectSeq(@, kept)]
    /\ UNCHANGED <<pipelineVars, readerVars, naming, limiter, spaced, memory, matching>>

\* handleYahooScreenshotSelect / handleCompetitorScreenshotSelect: screenshots
\* are chosen
UploadScreenshots ==
    /\ plugin.step = "step2"
    /\ ~plugin.uploaded
    /\ plugin' = [plugin EXCEPT !.uploaded = TRUE]
    /\ UNCHANGED <<pipelineVars, readerVars, naming, limiter, spaced, memory, matching>>

\* Create Comparison Cards: startScreenshotProcess() up to its postMessage
StartScreenshotProcess ==
    /\ plugin.step = "step2"
    /\ plugin.selectedQueryColumn # <<>>
    /\ plugin.uploaded
    /\ plugin' = [plugin EXCEPT
          !.step = "loading",
          !.sent = [type |-> "process-csv", csvData |-> plugin.csvData,
                    queryColumn |-> plugin.selectedQueryColumn,
                    additionalColumns |-> plugin.selectedAdditionalColumns]]
    /\ UNCHANGED <<pipelineVars, readerVars, naming, limiter, spaced, memory, matching>>

PluginNext ==
    \/ HandleFileSelect
    \/ GoToStep2
    \/ GoToStep1
    \/ ClickQueryColumn
    \/ ClickAdditionalColumn
    \/ UploadScreenshots
    \/ StartScreenshotProcess

PluginSpec == PluginInit /\ [][PluginNext]_vars

----------------------------------------------------------------------------
(* Vocabulary of the properties *)

\* the program has ended: the top-level function returned, or the process died
Stopped == main \in {"done", "crashed"}

\* the latest invocation created its session
Launched == cur >= 1 /\ run.context # "none"

Positions == 1..Len(tasks)

\* the outcomes of a processQuery call that resolved
Success(k) == tasks[k].status = "resolved" /\ tasks[k].success
Failed(k) == tasks[k].status = "resolved" /\ ~tasks[k].success

\* the files the call at position k of the latest invocation wrote
FilesOf(k) == {f \in files : f.run = cur /\ f.by = k}

\* the calls that are in flight, and the pages that are open
InFlight == {k \in Positions : tasks[k].status = "running"}
RECURSIVE SumPages(_)
SumPages(n) == IF n = 0 THEN 0 ELSE tasks[n].pages + SumPages(n - 1)
OpenPages == SumPages(Len(tasks))

----------------------------------------------------------------------------
(* C1 *)

\* C1: once the session exists, the pipeline ends only when every extracted query
\* has been handed to processQuery exactly once and that call has resolved with one
\* outcome, Success (its file written) or Failed (no file), after 1 to
\* maxRetries + 1 attempts; no query is dropped, and the progress bar has been
\* ticked once per query.
C1_OneResultPerQuery ==
    (Stopped /\ Launched) =>
        /\ Len(tasks) = args.rows
        /\ run.ticks = args.rows
        /\ \A k \in Positions :
              /\ tasks[k].status = "resolved"
              /\ tasks[k].index = k - 1
              /\ tasks[k].attempts \in 1..(maxRetries + 1)
              /\ Success(k) <=> FilesOf(k) # {}

----------------------------------------------------------------------------
(* C2 *)

\* C2: a request whose every attempt throws is attempted exactly maxRetries + 1
\* times and then ends Failed; the 1 s backoff only ever precedes another attempt;
\* no request is attempted more than maxRetries + 1 times.
C2_RetryBudget ==
    \A k \in Positions :
        /\ tasks[k].attempts <= maxRetries + 1
        /\ tasks[k].pc = "backoff" => tasks[k].retries <= maxRetries
        /\ (tasks[k].status \in {"resolved", "rejected"} /\ tasks[k].allThrew) =>
              /\ tasks[k].attempts = maxRetries + 1
              /\ Failed(k)

----------------------------------------------------------------------------
(* C3 *)

\* C3: a query's permanent failure never aborts the run: whenever the program has
\* ended and some query has exhausted its attempts, every request of the run has
\* resolved and the session has been torn down.
C3_FailureDoesNotAbort ==
    (Stopped /\ \E k \in Positions : Failed(k)) =>
        /\ \A k \in Positions : tasks[k].status = "resolved"
        /\ run.gen = "resolved"
        /\ run.context = "closed"

----------------------------------------------------------------------------
(* C4 *)

\* the most requests that may be in flight: 1 with the visible persistent
\* browser, 3 otherwise
Limit == IF cur >= 1 /\ run.persistent THEN 1 ELSE 3

\* C4: at every moment the requests in flight and the open pages number at most 1
\* when the persistent/visible browser is in use and at most 3 otherwise, and no
\* request has more than one page open.
C4_BoundedConcurrency ==
    /\ Cardinality(InFlight) <= Limit
    /\ OpenPages <= Limit
    /\ \A k \in Positions : tasks[k].pages <= 1

\* three requests in flight with their three pages open in a headless run, a
\* fourth request waiting for the next batch
C4_Witness ==
    /\ cur >= 1 /\ ~run.persistent
    /\ Cardinality(InFlight) = 3 /\ OpenPages = 3
    /\ \E k \in Positions : tasks[k].status = "none"

----------------------------------------------------------------------------
(* C5 *)

\* the number of the batch that holds position k
BatchNo(k) == (k - 1) \div (IF run.useChrome THEN 1 ELSE 3)

\* C5: batches run strictly in the order of the query sequence: as soon as a
\* request has been started, every request of every earlier batch has resolved
\* and closed its page, so only requests of one batch overlap.
C5_BatchesInOrder ==
    cur >= 1 =>
        \A j, k \in Positions :
            (BatchNo(j) < BatchNo(k) /\ tasks[k].status # "none") =>
                tasks[j].status = "resolved" /\ tasks[j].pages = 0

\* a request of the second batch has its page open after a first batch of three
\* overlapping requests, one of which failed
C5_Witness ==
    /\ cur >= 1 /\ ~run.useChrome /\ Len(tasks) >= 4
    /\ tasks[4].pages = 1
    /\ Success(1) /\ Failed(2) /\ Success(3)

----------------------------------------------------------------------------
(* C6 *)

\* the name of file f ends with suffix
EndsWith(name, suffix) ==
    /\ Len(name) >= Len(suffix)
    /\ SubSeq(name, Len(name) - Len(suffix) + 1, Len(name)) = suffix

\* C6: every file written by the request at position k (1-based) of the query
\* sequence lies in the directory of its run, has a name that starts with k
\* padded with zeros to 3 digits and ends with the sanitized k-th query and
\* ".jpg", whatever the interleaving of the batch.
C6_ExactAttribution ==
    \A f \in files :
        /\ f.run \in 1..Len(runs)
        /\ f.by \in 1..args.rows
        /\ f.path.dir = runs[f.run].outputDir
        /\ SubSeq(f.path.name, 1, 4) = <<"0", "0", DigitChar[f.by + 1], "_">>
        /\ EndsWith(f.path.name,
                    <<"_">> \o safeQuery(ExtractedQueries(args.rows)[f.by])
                        \o <<".", "j", "p", "g">>)

\* a request of the second batch wrote its file, and in the first batch the
\* second request wrote its file while the first one was still retrying
C6_Witness ==
    /\ cur >= 1 /\ ~run.useChrome /\ Len(tasks) >= 4
    /\ FilesOf(4) # {} /\ FilesOf(2) # {} /\ FilesOf(1) # {}
    /\ tasks[1].retries = 2 /\ tasks[2].retries = 0

----------------------------------------------------------------------------
(* C7 *)

\* C7: the session is torn down at the end of every run: once an invocation has
\* resolved, its browsing context and the browser launched for it are closed, for
\* every engine and use-chrome flag.
C7_TornDown ==
    \A r \in 1..Len(runs) :
        runs[r].gen = "resolved" =>
            runs[r].context = "closed" /\ runs[r].browser = "closed"

----------------------------------------------------------------------------
(* C8 *)

TeardownBegun == cur >= 1 /\ run.gen \in {"closeContext", "closeBrowser", "resolved"}

\* C8: the session exists before any request is processed and is open while any
\* page is; once teardown has begun every extracted query has a request that has
\* resolved, and no page is open.
C8_SessionBracketsRequests ==
    /\ \A k \in Positions :
          /\ tasks[k].status # "none" => Launched
          /\ tasks[k].pages > 0 => run.context = "open"
    /\ TeardownBegun =>
          /\ Len(tasks) = Len(queries)
          /\ \A k \in Positions : tasks[k].status = "resolved" /\ tasks[k].pages = 0

\* the context is closed after two batches, with a failed and a successful request
C8_Witness ==
    /\ TeardownBegun /\ run.context = "closed" /\ Len(tasks) >= 4
    /\ Failed(1) /\ Success(4)

----------------------------------------------------------------------------
(* C9 *)

\* what holds of compare mode whatever the second pass's use-chrome flag is: the
\* first pass is yahoo without use-chrome, a second pass exists only once the
\* first has resolved with its context and browser closed, it runs the requested
\* engine (google when yahoo was requested), and compare mode ends after exactly
\* two passes
TwoSequentialPasses ==
    /\ Len(runs) <= (IF args.compareMode THEN 2 ELSE 1)
    /\ \A r \in 1..(Len(runs) - 1) : runs[r].gen = "resolved"
    /\ (args.compareMode /\ Len(runs) >= 1) =>
          runs[1].engine = "yahoo" /\ ~runs[1].useChrome
    /\ Len(runs) = 2 =>
          /\ runs[1].context = "closed" /\ runs[1].browser = "closed"
          /\ runs[2].engine = (IF args.engine = "yahoo" THEN "google" ELSE args.engine)
    /\ (args.compareMode /\ main = "done") => Len(runs) = 2

\* C9 as stated: compare mode runs two passes that never overlap, first yahoo
\* with useChrome = false, then, after the first has completed and torn down,
\* the comparison engine with the user's useChrome preference.
C9_AsStated ==
    /\ TwoSequentialPasses
    /\ Len(runs) = 2 => runs[2].useChrome = args.useChrome

\* C9: compare mode runs two passes that never overlap, first yahoo with
\* useChrome = false, then, after the first has completed and torn down, the
\* comparison engine, with the user's useChrome preference when that engine is
\* google and with useChrome = false otherwise.
C9_CompareSequential ==
    /\ TwoSequentialPasses
    /\ Len(runs) = 2 =>
          runs[2].useChrome = (args.useChrome /\ runs[2].engine = "google")

\* compare mode has completed both passes for a requested engine other than
\* google with the use-chrome flag set
C9_Witness ==
    /\ args.compareMode /\ main = "done" /\ Len(runs) = 2
    /\ args.engine = "bing" /\ args.useChrome
    /\ files # {}

----------------------------------------------------------------------------
(* C10 *)

\* C10: the two passes of compare mode use two distinct output directories, and
\* no file of one pass lies in the directory of the other, for every requested
\* engine and also when both passes start within the same second.
C10_DistinctDirectories ==
    /\ Len(runs) = 2 => runs[1].outputDir # runs[2].outputDir
    /\ \A f, g \in files : f.run # g.run => f.path.dir # g.path.dir

\* both passes started within the same second with yahoo requested, and both
\* wrote a file
C10_Witness ==
    /\ Len(runs) = 2 /\ args.engine = "yahoo"
    /\ runs[1].outputDir.timestamp = runs[2].outputDir.timestamp
    /\ \E f, g \in files : f.run = 1 /\ g.run = 2

----------------------------------------------------------------------------
(* C11 *)

\* the cells in the column at index idx (from 0) of the given lines, in the order
\* of the lines: each trimmed, the lines without such a cell or with a blank one
\* left out
RECURSIVE CellsOfColumn(_, _)
CellsOfColumn(lines, idx) ==
    IF lines = <<>> THEN <<>>
    ELSE (IF idx + 1 \in 1..Len(Head(lines)) /\ trim(Head(lines)[idx + 1]) # <<>>
          THEN <<trim(Head(lines)[idx + 1])>>
          ELSE <<>>) \o CellsOfColumn(Tail(lines), idx)

\* C11: for every CSV file and resolved column index, the queries extracted from
\* the data rows read so far are the cells that lie in the column at that index,
\* in the file's column order, trimmed and in row order; a row is left out
\* exactly when that cell is missing or blank; duplicates are kept.
C11_ExtractsTheColumn ==
    reading \in {"rows", "done"} =>
        queries = CellsOfColumn(SubSeq(csvFile, 2, rowNo + 1), queryColIndex)

----------------------------------------------------------------------------
(* C12 *)

\* the header at position k (from 1) equals, or contains, the selector, the case
\* of the letters set aside
EqualsSelector(k) == toLowerCase(headers[k]) = toLowerCase(column)
ContainsSelector(k) == includes(toLowerCase(headers[k]), toLowerCase(column))

\* C12: a column selector that is a numeric literal is the index itself, also
\* when a header bears that name; otherwise the index is that of the first header
\* equal to the selector case-insensitively, also when an earlier header contains
\* the selector; otherwise that of the first header containing it
\* case-insensitively; otherwise 0.
C12_ColumnResolution ==
    (reading \in {"rows", "done"} /\ column # NoColumn /\ column # <<>>) =>
        IF AllDigits(column)
        THEN queryColIndex = DigitsValue(column)
        ELSE IF \E k \in 1..Len(headers) : EqualsSelector(k)
        THEN /\ queryColIndex + 1 \in 1..Len(headers)
             /\ EqualsSelector(queryColIndex + 1)
             /\ \A j \in 1..queryColIndex : ~EqualsSelector(j)
        ELSE IF \E k \in 1..Len(headers) : ContainsSelector(k)
        THEN /\ queryColIndex + 1 \in 1..Len(headers)
             /\ ContainsSelector(queryColIndex + 1)
             /\ \A j \in 1..queryColIndex : ~ContainsSelector(j)
        ELSE queryColIndex = 0

\* the selector "query" has been resolved to the second header, "Query", although
\* the first header, "myquery", contains it
C12_Witness ==
    /\ reading = "done"
    /\ headers = <<hMyQuery, hQuery>>
    /\ column = queryWord
    /\ queryColIndex = 1

----------------------------------------------------------------------------
(* C16 *)

\* the functions started from the n-th on within one second of the n-th
StartedWithinASecondOf(n) ==
    {m \in n..Len(limiter.started) : limiter.started[m] < limiter.started[n] + Second}

\* C16: RateLimiter(5) starts no more than 5 of the functions added to it within
\* any interval of one second, whenever they are added and however long they run.
C16_AtMostNPerSecond ==
    limiter # <<>> =>
        \A n \in 1..Len(limiter.started) :
            Cardinality(StartedWithinASecondOf(n)) <= maxRequestsPerSecond

----------------------------------------------------------------------------
(* C17 *)

\* C17: if the CSV file has fewer than 2 lines, a header line only or no line at
\* all, the reading comes to its end with no query extracted and goes on to the
\* browser launch; it never stops before that.
C17_ShortCsvYieldsNothing ==
    Len(csvFile) < 2 =>
        /\ reading # "pending"
        /\ queries = <<>>

----------------------------------------------------------------------------
(* C13 *)

\* name begins with prefix
StartsWith(name, prefix) ==
    Len(name) >= Len(prefix) /\ SubSeq(name, 1, Len(prefix)) = prefix

\* s is the query with every character outside [a-zA-Z0-9 _] replaced by "_", cut
\* to at most 40 characters, with nothing else left out than blanks at the cut
SanitizedFrom(s, query) ==
    /\ Len(s) <= 40
    /\ Len(s) <= Len(query)
    /\ \A k \in 1..Len(s) :
          s[k] = (IF query[k] \in Lower \cup Upper \cup Digit \cup {" ", "_"}
                  THEN query[k] ELSE "_")
    /\ \A k \in (Len(s) + 1)..Len(query) : k <= 40 => query[k] = " "

\* name is number_engine_device_sanitized.jpg for the call: the number is index + 1
\* in decimal with zeros in front up to 3 digits
NamedFor(name, call) ==
    \E n \in 3..Len(name) :
        LET number == SubSeq(name, 1, n)
            middle == <<"_">> \o Chars(call.engine) \o <<"_">> \o Chars(call.deviceName)
                         \o <<"_">>
            rest == SubSeq(name, n + 1, Len(name))
        IN  /\ AllDigits(number)
            /\ DigitsValue(number) = call.index + 1
            /\ n = 3 \/ Head(number) # "0"
            /\ StartsWith(rest, middle)
            /\ EndsWith(rest, <<".", "j", "p", "g">>)
            /\ Len(rest) >= Len(middle) + 4
            /\ SanitizedFrom(SubSeq(rest, Len(middle) + 1, Len(rest) - 4), call.query)

----------------------------------------------------------------------------
(* C14 *)

\* C14: the browser mode is selected per engine: a run launches the visible
\* browser with the persistent profile exactly when its use-chrome flag is set
\* and its engine is google; for every other engine, and without the flag, it
\* launches a headless browser.  In compare mode no pass is visible unless the
\* user set the flag.
C14_ModePerEngine ==
    \A r \in 1..Len(runs) :
        runs[r].context # "none" =>
            /\ runs[r].persistent <=> (runs[r].useChrome /\ runs[r].engine = "google")
            /\ runs[r].persistent => args.useChrome

\* a run for bing with the use-chrome flag set is processing a request in a
\* headless browser
C14_Witness ==
    /\ cur >= 1 /\ run.engine = "bing" /\ run.useChrome
    /\ run.context = "open" /\ ~run.persistent
    /\ OpenPages = 1

----------------------------------------------------------------------------
(* C15 *)

\* C15: a failure to launch the browser or to create the context is fatal and not
\* retried: an invocation without a session is either still launching or has
\* rejected, and then the program has ended; no request of it was started, no
\* file of it exists, and no later invocation was started, so in compare mode the
\* second pass never runs after a launch failure in the first.
C15_LaunchFailureFatal ==
    \A r \in 1..Len(runs) :
        runs[r].context = "none" =>
            /\ runs[r].gen \in {"launch", "rejected"}
            /\ runs[r].gen = "rejected" => main = "crashed"
            /\ r = Len(runs)
            /\ \A k \in Positions : tasks[k].status = "none"
            /\ \A f \in files : f.run # r

\* the launch of the first pass of compare mode has failed, with a query to process
C15_Witness ==
    /\ args.compareMode /\ args.rows >= 1
    /\ Len(runs) = 1 /\ runs[1].gen = "rejected" /\ runs[1].context = "none"
    /\ main = "crashed"

----------------------------------------------------------------------------
(* C18 *)

\* C18: every exception of an attempt, a failure to open the page included, is
\* caught inside processQuery, which therefore never rejects; an invocation that
\* has its session never rejects either.
C18_CaughtAtQueryLevel ==
    /\ \A k \in Positions : tasks[k].status # "rejected"
    /\ \A r \in 1..Len(runs) : runs[r].gen = "rejected" => runs[r].context = "none"

----------------------------------------------------------------------------
(* C19 *)

\* C19: a request has at most one page open; the page of an attempt is closed
\* before the next attempt asks for its page and before the request resolves,
\* whether the attempt captured, threw or was abandoned on a CAPTCHA; once the
\* requests of a run are over and when the run has resolved, no page is open.
C19_PagesClosed ==
    /\ \A k \in Positions :
          /\ tasks[k].pages \in {0, 1}
          /\ tasks[k].pc \in {"newPage", "done"} => tasks[k].pages = 0
          /\ tasks[k].status = "resolved" => tasks[k].pages = 0
    /\ TeardownBegun => OpenPages = 0

\* a headless request has resolved without a file after three attempts, at least
\* one of them abandoned on a CAPTCHA, another request of the batch has captured,
\* and no page is open
C19_Witness ==
    /\ cur >= 1 /\ ~run.useChrome
    /\ \E k \in Positions :
          Failed(k) /\ ~tasks[k].allThrew /\ tasks[k].attempts = maxRetries + 1
    /\ \E k \in Positions : Success(k)
    /\ OpenPages = 0

----------------------------------------------------------------------------
(* C20 *)

\* C20: in a session that runs headless, also one started with the use-chrome
\* flag for an engine other than google, a detected CAPTCHA is never waited on:
\* the attempt is abandoned at once.
C20_HeadlessCaptchaAbandons ==
    \A k \in Positions :
        tasks[k].pc = "captchaWait" => (cur >= 1 /\ run.persistent)

----------------------------------------------------------------------------
(* C21 *)

\* the requests of the latest invocation that the batch loop has started and
\* not yet passed: the batch it is awaiting
Started == {k \in Positions : k > i /\ tasks[k].status # "none"}

\* C21: the batch size is 1 exactly when the session runs in the visible browser
\* with the persistent profile, and 3 in every headless session, also in one
\* started with the use-chrome flag for an engine other than google: the batch
\* the loop is awaiting holds that many requests, or all that are left.
C21_BatchSizeByMode ==
    (cur >= 1 /\ run.gen = "batch") =>
        Cardinality(Started) = Min(IF run.persistent THEN 1 ELSE 3, Len(queries) - i)

----------------------------------------------------------------------------
(* C22 *)

\* the request at position k is in an attempt of a visible session and takes
\* the step
InVisibleAttempt(k) ==
    /\ cur >= 1 /\ run.persistent /\ Len(runs') = Len(runs)
    /\ k \in DOMAIN tasks /\ k \in DOMAIN tasks' /\ tasks'[k] # tasks[k]

\* the step leaves the attempt, its page and the retry counter as they are
SameAttempt(k) ==
    /\ tasks'[k].retries = tasks[k].retries
    /\ tasks'[k].attempts = tasks[k].attempts
    /\ tasks'[k].pages = tasks[k].pages
    /\ tasks'[k].status = "running"

\* the step is one of the catch block: an awaited call of the attempt threw
Threw(k) == tasks'[k].retries = tasks[k].retries + 1

\* C22: in a visible session a detected CAPTCHA starts the 30 s pause without a
\* change of the retry counter; when the pause is over the same attempt goes on,
\* on the same page and without another look at it, to the delay and the
\* screenshot; and unless that throws, the file of the request is written and
\* the request ends as a success.
C22_VisibleCaptchaWaitsThenCaptures ==
    [][\A k \in 1..MaxQueries + 1 :
          InVisibleAttempt(k) =>
              /\ tasks'[k].pc = "captchaWait" =>
                    tasks[k].pc = "visit" /\ SameAttempt(k)
              /\ tasks[k].pc = "captchaWait" =>
                    \/ tasks'[k].pc = "capture" /\ SameAttempt(k)
                    \/ Threw(k)
              /\ tasks[k].pc = "capture" =>
                    \/ /\ tasks'[k].success /\ tasks'[k].pc = "close" /\ SameAttempt(k)
                       /\ Written(k, tasks[k]) \in files'
                    \/ Threw(k)
              /\ (tasks[k].success /\ tasks[k].pc = "close") =>
                    (tasks'[k].status = "resolved" /\ tasks'[k].success)]_vars

\* in a visible session a request waits out a CAPTCHA in its first attempt while
\* an earlier request of the run has captured
C22_Witness ==
    /\ cur >= 1 /\ run.persistent
    /\ \E k \in Positions :
          /\ tasks[k].pc = "captchaWait" /\ tasks[k].retries = 0 /\ tasks[k].attempts = 1
          /\ \E j \in Positions : j < k /\ Success(j)

----------------------------------------------------------------------------
(* C23 *)

\* the indices of the other requests of a run, some of them beyond 999
OtherIndices == NameIndices \cup {998, 1000, 1009, 9999}

\* C23: within one run no two requests write the same path.  The file name of a
\* request differs from the name of every request with another index, whatever
\* the queries are (the same query, or sequences of more than 999); and every
\* attempt of a request hands page.screenshot the one path of the request, which
\* is its file name inside the run directory.
C23_OwnUniqueFile ==
    naming.pc # "call" =>
        /\ naming.filepath = [dir |-> "output", name |-> naming.filename]
        /\ naming.used \subseteq {naming.filepath}
        /\ \A j \in OtherIndices, q \in NameQueries :
              j # naming.index =>
                  filename(q, j, naming.engine, naming.deviceName) # naming.filename

\* the thousandth request of a run has written its file "1000_..." in its last
\* attempt, every attempt having used that one path
C23_Witness ==
    /\ naming.pc = "done" /\ naming.index = 999 /\ naming.retries = maxRetries
    /\ naming.used = {naming.filepath}
    /\ SubSeq(naming.filename, 1, 5) = <<"1", "0", "0", "0", "_">>

----------------------------------------------------------------------------
(* C24 *)

\* C24: every request that ends Failed, whether exceptions, headless CAPTCHA
\* detections or both used up its attempts, has been reported as failed in the
\* log with its query: no request ends without a screenshot and without that
\* report.
C24_FailuresReported ==
    \A k \in Positions : Failed(k) => tasks[k].reported

----------------------------------------------------------------------------
(* C25 *)

\* the elements of a sequence
Range(s) == {s[n] : n \in 1..Len(s)}

\* C25: the promise add() returned settles only with the outcome of its own
\* function, resolved when the function resolves and rejected when it rejects,
\* and only once the function has been started; no function is lost, each one
\* is queued or was started; and whenever a function is queued, also after a
\* rejection and when it was added during a wait or while another function
\* runs, the queue is being processed: processQueue waits for its timer or for
\* the running function, and goes on with the queue when that is over.
C25_OwnOutcomeAndProgress ==
    limiter # <<>> =>
        /\ \A n \in 1..limiter.adds :
              /\ limiter.promises[n] \in
                    {"pending", IF limiter.fns[n] = "resolves" THEN "resolved" ELSE "rejected"}
              /\ limiter.promises[n] # "pending" => n \in Range(limiter.order)
              /\ n \in Range(limiter.queue) \/ n \in Range(limiter.order)
        /\ limiter.queue # <<>> => limiter.pc \in {"wait", "fn", "next"}
        /\ limiter.pc = "fn" => limiter.promises[limiter.order[Len(limiter.order)]] = "pending"
        /\ limiter.pc = "idle" =>
              \A n \in 1..limiter.adds : limiter.promises[n] # "pending"

\* a function has rejected, and the two added after it have been run since: one
\* resolved, the other is running, with more functions queued
C25_Witness ==
    /\ limiter # <<>>
    /\ \E n \in 1..limiter.adds :
          /\ n + 2 <= limiter.adds
          /\ limiter.promises[n] = "rejected"
          /\ limiter.promises[n + 1] = "resolved"
          /\ limiter.pc = "fn" /\ limiter.order[Len(limiter.order)] = n + 2
    /\ limiter.queue # <<>>

----------------------------------------------------------------------------
(* C26 *)

\* the functions are started in the order of the add() calls, and each one only
\* when all started before it have settled
OneAtATime(order, settled, pc) ==
    /\ order = [n \in 1..Len(order) |-> n]
    /\ \A n \in 1..Len(order) : n < Len(order) => n \in settled
    /\ Len(order) >= 1 => (Len(order) \in settled <=> pc # "fn")

\* C26: both RateLimiters run the queued functions strictly one at a time and in
\* the order of the add() calls, and at most one chain of processQueue calls is
\* active, exactly while the processing (running) flag is set, however the
\* add() calls fall between the waits and the completions.
C26_OneProcessorInOrder ==
    /\ limiter # <<>> =>
          /\ OneAtATime(limiter.order,
                        {n \in 1..limiter.adds : limiter.promises[n] # "pending"},
                        limiter.pc)
          /\ limiter.chains \in {0, 1}
          /\ limiter.processing <=> limiter.chains = 1
          /\ limiter.processing <=> limiter.pc # "idle"
          /\ limiter.queue = [n \in 1..Len(limiter.queue) |-> Len(limiter.order) + n]
    /\ spaced # <<>> =>
          /\ OneAtATime(spaced.order, spaced.settled, spaced.pc)
          /\ spaced.chains \in {0, 1}
          /\ spaced.running <=> spaced.chains = 1
          /\ spaced.running <=> spaced.pc # "idle"
          /\ spaced.queue = [n \in 1..Len(spaced.queue) |-> Len(spaced.order) + n]

\* two functions were added while the limiter waited for its timer: they are
\* queued behind the one that is due, in the order they were added
C26_Witness ==
    /\ limiter # <<>>
    /\ limiter.pc = "wait" /\ limiter.now < limiter.timer
    /\ Len(limiter.queue) >= 3
    /\ Len(limiter.order) >= 4

----------------------------------------------------------------------------
(* C27 *)

----------------------------------------------------------------------------
(* C28 *)

\* C28: an entry is kept only for cacheTTL ms after its last use: getImageHash
\* never returns the hash of an entry whose last use lies more than cacheTTL
\* in the past.
C28_ExpiredNotReturned ==
    memory # <<>> =>
        ((memory.last.op = "getImageHash" /\ memory.last.result # "null")
            => memory.last.age <= cacheTTL)

----------------------------------------------------------------------------
(* C29 *)

\* C29: the file name the tool gives the screenshot of a query of the CSV column
\* is mapped back to that query by extractQueryFromFilename, given the queries
\* of the same column: every screenshot is matched to its own query.
C29_RoundTrip ==
    matching # <<>> =>
        \A k \in 1..Len(matching.matched) : matching.matched[k] = matching.queries[k]

----------------------------------------------------------------------------
(* C30 *)

\* C30: the selection sent in the 'process-csv' message is what the page shows:
\* additionalColumns holds each column index at most once and exactly the
\* columns highlighted in the additional list, and queryColumn is a column of
\* the CSV that is loaded and is highlighted in the query list.
C30_SelectionAsDisplayed ==
    (plugin # <<>> /\ plugin.sent # <<>>) =>
        LET cols == plugin.sent.additionalColumns
            col == plugin.sent.queryColumn
        IN  /\ \A a, b \in 1..Len(cols) : cols[a].index = cols[b].index => a = b
            /\ {cols[a].index : a \in 1..Len(cols)} = plugin.additionalItems
            /\ col.index < Len(plugin.headers)
            /\ plugin.headers[col.index + 1] = col.name
            /\ col.index \in plugin.queryItems

====
